---- MODULE Spec2Model ----
(***************************************************************************)
(* A model of pdf_to_excel_comparer.py: the record cleaner (extract_pdf),  *)
(* the table resolver (find_matching_csv_files, extract_matching_csv_data),*)
(* the candidate matcher (find_matching_additions), the driver             *)
(* (get_pdf_matches, find_unmatched_pdf_records) and the module-level      *)
(* report writer.                                                          *)
(*                                                                         *)
(* A Python str is a sequence of characters, each a string: a printable    *)
(* ASCII character is itself, and any other character is written the way   *)
(* Python writes it ("\\x0b", "\\xa0", "\\u2003", "\\U0001d7ce"), except    *)
(* "\t", "\n", "\r" and "\f".  None is <<"None">> (which no str equals), a *)
(* dict is a sequence of <<key, value>> pairs in insertion order, and a    *)
(* call that raises returns a record whose field raised is TRUE.           *)
(*                                                                         *)
(* A finite float is the triple <<sign, m, k>> standing for                *)
(* sign * m / 10^k, m being the sequence of its decimal digits and k >= 0  *)
(* least: the decimal Python writes for the double (repr).  An int is      *)
(* <<sign, m, 0>> with its own digits.  inf, -inf and nan are              *)
(* <<1, <<>>, -1>>, <<-1, <<>>, -1>> and <<0, <<>>, -1>>.  A fuzz.ratio    *)
(* score is the fraction <<n, d>> in lowest terms.                         *)
(***************************************************************************)
EXTENDS Integers, Sequences, FiniteSets, TLC

VARIABLES pc, pdf, csv_directory, company_name, matching_files, pdf_record,
          csv_data, additions, pdf_data, matches, seen_numbers, written,
          entry_idx, unmatched_records

vars == <<pc, pdf, csv_directory, company_name, matching_files, pdf_record,
          csv_data, additions, pdf_data, matches, seen_numbers, written,
          entry_idx, unmatched_records>>

(***************************************************************************)
(* Characters and the str methods the program uses.                        *)
(***************************************************************************)
None == <<"None">>

LowerLetters == <<"a","b","c","d","e","f","g","h","i","j","k","l","m",
                  "n","o","p","q","r","s","t","u","v","w","x","y","z">>
UpperLetters == <<"A","B","C","D","E","F","G","H","I","J","K","L","M",
                  "N","O","P","Q","R","S","T","U","V","W","X","Y","Z">>
DigitChars == <<"0","1","2","3","4","5","6","7","8","9">>

\* the decimal digits of Unicode (category Nd), which \d matches and float()
\* reads: each row holds the digits 0 to 9 of one script
DecimalDigits ==
  <<
     <<"0","1","2","3","4","5","6","7","8","9">>,
     <<"\\u0660","\\u0661","\\u0662","\\u0663","\\u0664","\\u0665","\\u0666","\\u0667","\\u0668","\\u0669">>,
     <<"\\u06f0","\\u06f1","\\u06f2","\\u06f3","\\u06f4","\\u06f5","\\u06f6","\\u06f7","\\u06f8","\\u06f9">>,
     <<"\\u07c0","\\u07c1","\\u07c2","\\u07c3","\\u07c4","\\u07c5","\\u07c6","\\u07c7","\\u07c8","\\u07c9">>,
     <<"\\u0966","\\u0967","\\u0968","\\u0969","\\u096a","\\u096b","\\u096c","\\u096d","\\u096e","\\u096f">>,
     <<"\\u09e6","\\u09e7","\\u09e8","\\u09e9","\\u09ea","\\u09eb","\\u09ec","\\u09ed","\\u09ee","\\u09ef">>,
     <<"\\u0a66","\\u0a67","\\u0a68","\\u0a69","\\u0a6a","\\u0a6b","\\u0a6c","\\u0a6d","\\u0a6e","\\u0a6f">>,
     <<"\\u0ae6","\\u0ae7","\\u0ae8","\\u0ae9","\\u0aea","\\u0aeb","\\u0aec","\\u0aed","\\u0aee","\\u0aef">>,
     <<"\\u0b66","\\u0b67","\\u0b68","\\u0b69","\\u0b6a","\\u0b6b","\\u0b6c","\\u0b6d","\\u0b6e","\\u0b6f">>,
     <<"\\u0be6","\\u0be7","\\u0be8","\\u0be9","\\u0bea","\\u0beb","\\u0bec","\\u0bed","\\u0bee","\\u0bef">>,
     <<"\\u0c66","\\u0c67","\\u0c68","\\u0c69","\\u0c6a","\\u0c6b","\\u0c6c","\\u0c6d","\\u0c6e","\\u0c6f">>,
     <<"\\u0ce6","\\u0ce7","\\u0ce8","\\u0ce9","\\u0cea","\\u0ceb","\\u0cec","\\u0ced","\\u0cee","\\u0cef">>,
     <<"\\u0d66","\\u0d67","\\u0d68","\\u0d69","\\u0d6a","\\u0d6b","\\u0d6c","\\u0d6d","\\u0d6e","\\u0d6f">>,
     <<"\\u0de6","\\u0de7","\\u0de8","\\u0de9","\\u0dea","\\u0deb","\\u0dec","\\u0ded","\\u0dee","\\u0def">>,
     <<"\\u0e50","\\u0e51","\\u0e52","\\u0e53","\\u0e54","\\u0e55","\\u0e56","\\u0e57","\\u0e58","\\u0e59">>,
     <<"\\u0ed0","\\u0ed1","\\u0ed2","\\u0ed3","\\u0ed4","\\u0ed5","\\u0ed6","\\u0ed7","\\u0ed8","\\u0ed9">>,
     <<"\\u0f20","\\u0f21","\\u0f22","\\u0f23","\\u0f24","\\u0f25","\\u0f26","\\u0f27","\\u0f28","\\u0f29">>,
     <<"\\u1040","\\u1041","\\u1042","\\u1043","\\u1044","\\u1045","\\u1046","\\u1047","\\u1048","\\u1049">>,
     <<"\\u1090","\\u1091","\\u1092","\\u1093","\\u1094","\\u1095","\\u1096","\\u1097","\\u1098","\\u1099">>,
     <<"\\u17e0","\\u17e1","\\u17e2","\\u17e3","\\u17e4","\\u17e5","\\u17e6","\\u17e7","\\u17e8","\\u17e9">>,
     <<"\\u1810","\\u1811","\\u1812","\\u1813","\\u1814","\\u1815","\\u1816","\\u1817","\\u1818","\\u1819">>,
     <<"\\u1946","\\u1947","\\u1948","\\u1949","\\u194a","\\u194b","\\u194c","\\u194d","\\u194e","\\u194f">>,
     <<"\\u19d0","\\u19d1","\\u19d2","\\u19d3","\\u19d4","\\u19d5","\\u19d6","\\u19d7","\\u19d8","\\u19d9">>,
     <<"\\u1a80","\\u1a81","\\u1a82","\\u1a83","\\u1a84","\\u1a85","\\u1a86","\\u1a87","\\u1a88","\\u1a89">>,
     <<"\\u1a90","\\u1a91","\\u1a92","\\u1a93","\\u1a94","\\u1a95","\\u1a96","\\u1a97","\\u1a98","\\u1a99">>,
     <<"\\u1b50","\\u1b51","\\u1b52","\\u1b53","\\u1b54","\\u1b55","\\u1b56","\\u1b57","\\u1b58","\\u1b59">>,
     <<"\\u1bb0","\\u1bb1","\\u1bb2","\\u1bb3","\\u1bb4","\\u1bb5","\\u1bb6","\\u1bb7","\\u1bb8","\\u1bb9">>,
     <<"\\u1c40","\\u1c41","\\u1c42","\\u1c43","\\u1c44","\\u1c45","\\u1c46","\\u1c47","\\u1c48","\\u1c49">>,
     <<"\\u1c50","\\u1c51","\\u1c52","\\u1c53","\\u1c54","\\u1c55","\\u1c56","\\u1c57","\\u1c58","\\u1c59">>,
     <<"\\ua620","\\ua621","\\ua622","\\ua623","\\ua624","\\ua625","\\ua626","\\ua627","\\ua628","\\ua629">>,
     <<"\\ua8d0","\\ua8d1","\\ua8d2","\\ua8d3","\\ua8d4","\\ua8d5","\\ua8d6","\\ua8d7","\\ua8d8","\\ua8d9">>,
     <<"\\ua900","\\ua901","\\ua902","\\ua903","\\ua904","\\ua905","\\ua906","\\ua907","\\ua908","\\ua909">>,
     <<"\\ua9d0","\\ua9d1","\\ua9d2","\\ua9d3","\\ua9d4","\\ua9d5","\\ua9d6","\\ua9d7","\\ua9d8","\\ua9d9">>,
     <<"\\ua9f0","\\ua9f1","\\ua9f2","\\ua9f3","\\ua9f4","\\ua9f5","\\ua9f6","\\ua9f7","\\ua9f8","\\ua9f9">>,
     <<"\\uaa50","\\uaa51","\\uaa52","\\uaa53","\\uaa54","\\uaa55","\\uaa56","\\uaa57","\\uaa58","\\uaa59">>,
     <<"\\uabf0","\\uabf1","\\uabf2","\\uabf3","\\uabf4","\\uabf5","\\uabf6","\\uabf7","\\uabf8","\\uabf9">>,
     <<"\\uff10","\\uff11","\\uff12","\\uff13","\\uff14","\\uff15","\\uff16","\\uff17","\\uff18","\\uff19">>,
     <<"\\U000104a0","\\U000104a1","\\U000104a2","\\U000104a3","\\U000104a4","\\U000104a5","\\U000104a6","\\U000104a7","\\U000104a8","\\U000104a9">>,
     <<"\\U00010d30","\\U00010d31","\\U00010d32","\\U00010d33","\\U00010d34","\\U00010d35","\\U00010d36","\\U00010d37","\\U00010d38","\\U00010d39">>,
     <<"\\U00011066","\\U00011067","\\U00011068","\\U00011069","\\U0001106a","\\U0001106b","\\U0001106c","\\U0001106d","\\U0001106e","\\U0001106f">>,
     <<"\\U000110f0","\\U000110f1","\\U000110f2","\\U000110f3","\\U000110f4","\\U000110f5","\\U000110f6","\\U000110f7","\\U000110f8","\\U000110f9">>,
     <<"\\U00011136","\\U00011137","\\U00011138","\\U00011139","\\U0001113a","\\U0001113b","\\U0001113c","\\U0001113d","\\U0001113e","\\U0001113f">>,
     <<"\\U000111d0","\\U000111d1","\\U000111d2","\\U000111d3","\\U000111d4","\\U000111d5","\\U000111d6","\\U000111d7","\\U000111d8","\\U000111d9">>,
     <<"\\U000112f0","\\U000112f1","\\U000112f2","\\U000112f3","\\U000112f4","\\U000112f5","\\U000112f6","\\U000112f7","\\U000112f8","\\U000112f9">>,
     <<"\\U00011450","\\U00011451","\\U00011452","\\U00011453","\\U00011454","\\U00011455","\\U00011456","\\U00011457","\\U00011458","\\U00011459">>,
     <<"\\U000114d0","\\U000114d1","\\U000114d2","\\U000114d3","\\U000114d4","\\U000114d5","\\U000114d6","\\U000114d7","\\U000114d8","\\U000114d9">>,
     <<"\\U00011650","\\U00011651","\\U00011652","\\U00011653","\\U00011654","\\U00011655","\\U00011656","\\U00011657","\\U00011658","\\U00011659">>,
     <<"\\U000116c0","\\U000116c1","\\U000116c2","\\U000116c3","\\U000116c4","\\U000116c5","\\U000116c6","\\U000116c7","\\U000116c8","\\U000116c9">>,
     <<"\\U00011730","\\U00011731","\\U00011732","\\U00011733","\\U00011734","\\U00011735","\\U00011736","\\U00011737","\\U00011738","\\U00011739">>,
     <<"\\U000118e0","\\U000118e1","\\U000118e2","\\U000118e3","\\U000118e4","\\U000118e5","\\U000118e6","\\U000118e7","\\U000118e8","\\U000118e9">>,
     <<"\\U00011950","\\U00011951","\\U00011952","\\U00011953","\\U00011954","\\U00011955","\\U00011956","\\U00011957","\\U00011958","\\U00011959">>,
     <<"\\U00011c50","\\U00011c51","\\U00011c52","\\U00011c53","\\U00011c54","\\U00011c55","\\U00011c56","\\U00011c57","\\U00011c58","\\U00011c59">>,
     <<"\\U00011d50","\\U00011d51","\\U00011d52","\\U00011d53","\\U00011d54","\\U00011d55","\\U00011d56","\\U00011d57","\\U00011d58","\\U00011d59">>,
     <<"\\U00011da0","\\U00011da1","\\U00011da2","\\U00011da3","\\U00011da4","\\U00011da5","\\U00011da6","\\U00011da7","\\U00011da8","\\U00011da9">>,
     <<"\\U00016a60","\\U00016a61","\\U00016a62","\\U00016a63","\\U00016a64","\\U00016a65","\\U00016a66","\\U00016a67","\\U00016a68","\\U00016a69">>,
     <<"\\U00016ac0","\\U00016ac1","\\U00016ac2","\\U00016ac3","\\U00016ac4","\\U00016ac5","\\U00016ac6","\\U00016ac7","\\U00016ac8","\\U00016ac9">>,
     <<"\\U00016b50","\\U00016b51","\\U00016b52","\\U00016b53","\\U00016b54","\\U00016b55","\\U00016b56","\\U00016b57","\\U00016b58","\\U00016b59">>,
     <<"\\U0001d7ce","\\U0001d7cf","\\U0001d7d0","\\U0001d7d1","\\U0001d7d2","\\U0001d7d3","\\U0001d7d4","\\U0001d7d5","\\U0001d7d6","\\U0001d7d7">>,
     <<"\\U0001d7d8","\\U0001d7d9","\\U0001d7da","\\U0001d7db","\\U0001d7dc","\\U0001d7dd","\\U0001d7de","\\U0001d7df","\\U0001d7e0","\\U0001d7e1">>,
     <<"\\U0001d7e2","\\U0001d7e3","\\U0001d7e4","\\U0001d7e5","\\U0001d7e6","\\U0001d7e7","\\U0001d7e8","\\U0001d7e9","\\U0001d7ea","\\U0001d7eb">>,
     <<"\\U0001d7ec","\\U0001d7ed","\\U0001d7ee","\\U0001d7ef","\\U0001d7f0","\\U0001d7f1","\\U0001d7f2","\\U0001d7f3","\\U0001d7f4","\\U0001d7f5">>,
     <<"\\U0001d7f6","\\U0001d7f7","\\U0001d7f8","\\U0001d7f9","\\U0001d7fa","\\U0001d7fb","\\U0001d7fc","\\U0001d7fd","\\U0001d7fe","\\U0001d7ff">>,
     <<"\\U0001e140","\\U0001e141","\\U0001e142","\\U0001e143","\\U0001e144","\\U0001e145","\\U0001e146","\\U0001e147","\\U0001e148","\\U0001e149">>,
     <<"\\U0001e2f0","\\U0001e2f1","\\U0001e2f2","\\U0001e2f3","\\U0001e2f4","\\U0001e2f5","\\U0001e2f6","\\U0001e2f7","\\U0001e2f8","\\U0001e2f9">>,
     <<"\\U0001e950","\\U0001e951","\\U0001e952","\\U0001e953","\\U0001e954","\\U0001e955","\\U0001e956","\\U0001e957","\\U0001e958","\\U0001e959">>,
     <<"\\U0001fbf0","\\U0001fbf1","\\U0001fbf2","\\U0001fbf3","\\U0001fbf4","\\U0001fbf5","\\U0001fbf6","\\U0001fbf7","\\U0001fbf8","\\U0001fbf9">>
  >>

Range(s) == {s[i] : i \in 1..Len(s)}

AsciiDigitSet == Range(DigitChars)
DigitSet == UNION {Range(DecimalDigits[r]) : r \in 1..Len(DecimalDigits)}
UpperSet == Range(UpperLetters)
AlphaSet == Range(LowerLetters) \cup Range(UpperLetters)

\* the characters of str.isspace(): what \s matches and str.strip() removes
SpaceSet ==
    {"\t", "\n", "\\x0b", "\f", "\r", "\\x1c", "\\x1d", "\\x1e", "\\x1f",
     " ", "\\x85", "\\xa0", "\\u1680", "\\u2000", "\\u2001", "\\u2002",
     "\\u2003", "\\u2004", "\\u2005", "\\u2006", "\\u2007", "\\u2008",
     "\\u2009", "\\u200a", "\\u2028", "\\u2029", "\\u202f", "\\u205f",
     "\\u3000"}

\* the whitespace float() removes around its argument
FloatSpaceSet == SpaceSet \ {"\\x1c", "\\x1d", "\\x1e", "\\x1f"}

\* \d, [0-9], \s, [a-zA-Z]
IsDigit(c) == c \in DigitSet
IsAsciiDigit(c) == c \in AsciiDigitSet
IsSpace(c) == c \in SpaceSet
IsAlpha(c) == c \in AlphaSet

DigitValueOf ==
    [c \in DigitSet |->
        (CHOOSE i \in 1..Len(DigitChars) :
            \E r \in 1..Len(DecimalDigits) : DecimalDigits[r][i] = c) - 1]
DigitValue(c) == DigitValueOf[c]

\* str.lower() on one character.  Outside ASCII only U+0130 and U+212A have a
\* lower case holding an ASCII letter ("i" with a combining dot, and "k");
\* they and the other cased letters outside ASCII are left as they are,
\* which changes neither normalize_string (its regex has removed them) nor
\* the search for "cost" and "quantity" in a column label.
LowerOf == [c \in UpperSet |-> LowerLetters[CHOOSE i \in 1..26 : UpperLetters[i] = c]]
LowerChar(c) == IF c \in UpperSet THEN LowerOf[c] ELSE c

\* str.lower()
Lower(s) == [i \in 1..Len(s) |-> LowerChar(s[i])]

\* str.strip(): leading and trailing whitespace removed
StripOf(s, W) ==
    LET keep == {i \in 1..Len(s) : s[i] \notin W}
    IN  IF keep = {} THEN <<>>
        ELSE LET lo == CHOOSE i \in keep : \A j \in keep : i <= j
                 hi == CHOOSE i \in keep : \A j \in keep : j <= i
             IN  SubSeq(s, lo, hi)

Strip(s) == StripOf(s, SpaceSet)

\* str.replace(",", "")
RemoveCommas(s) == SelectSeq(s, LAMBDA c : c # ",")

\* str.endswith(suffix)
EndsWith(s, suffix) ==
    /\ Len(s) >= Len(suffix)
    /\ SubSeq(s, Len(s) - Len(suffix) + 1, Len(s)) = suffix

\* needle in haystack
Contains(haystack, needle) ==
    \E i \in 1..(Len(haystack) - Len(needle) + 1) :
        SubSeq(haystack, i, i + Len(needle) - 1) = needle

Max(a, b) == IF a >= b THEN a ELSE b

RECURSIVE Gcd(_, _)
Gcd(a, b) == IF b = 0 THEN a ELSE Gcd(b, a % b)

(***************************************************************************)
(* normalize_string: re.sub(r'[^a-zA-Z0-9\s]', '', s).strip().lower()      *)
(***************************************************************************)
normalize_string(s) ==
    Lower(Strip(SelectSeq(s, LAMBDA c : IsAlpha(c) \/ IsAsciiDigit(c) \/ IsSpace(c))))

(***************************************************************************)
(* rapidfuzz's fuzz.ratio: 100 * (1 - indel distance / (len1 + len2)),     *)
(* the indel distance being len1 + len2 - 2 * LCS; 100 for two empty       *)
(* strings.  The longest common subsequence is computed row by row.        *)
(***************************************************************************)
\* the row of the table after character c of a: acc holds its first entries
RECURSIVE LcsRow(_, _, _, _)
LcsRow(prev, c, b, acc) ==
    LET j == Len(acc)
    IN  IF j > Len(b) THEN acc
        ELSE LcsRow(prev, c, b,
                    Append(acc, IF c = b[j] THEN prev[j] + 1
                                ELSE Max(prev[j + 1], acc[j])))

\* the row of the table after the first i characters of a
RECURSIVE LcsRows(_, _, _)
LcsRows(a, b, i) ==
    IF i = 0 THEN [j \in 1..(Len(b) + 1) |-> 0]
    ELSE LcsRow(LcsRows(a, b, i - 1), a[i], b, <<0>>)

Lcs(a, b) == LcsRows(a, b, Len(a))[Len(b) + 1]

Fraction(n, d) == LET g == Gcd(n, d) IN <<n \div g, d \div g>>

fuzz_ratio(a, b) ==
    IF Len(a) + Len(b) = 0 THEN <<100, 1>>
    ELSE Fraction(200 * Lcs(a, b), Len(a) + Len(b))

\* score1 > score2, score1 >= score2 on fractions
ScoreGt(x, y) == x[1] * y[2] > y[1] * x[2]
ScoreGe(x, y) == x[1] * y[2] >= y[1] * x[2]

(***************************************************************************)
(* The table resolver.                                                     *)
(***************************************************************************)
FuzzyThreshold == 80

DotCsv == <<".", "c", "s", "v">>

\* os.path.splitext(filename)[0]: the extension starts at the last dot, unless
\* only dots come before it
splitext_base(filename) ==
    LET dots == {i \in 1..Len(filename) : filename[i] = "."}
    IN  IF dots = {} THEN filename
        ELSE LET last == CHOOSE i \in dots : \A j \in dots : j <= i
             IN  IF \E j \in 1..(last - 1) : filename[j] # "."
                 THEN SubSeq(filename, 1, last - 1)
                 ELSE filename

\* re.sub(r"\s*\d+$", "", s): the trailing run of digits and the whitespace
\* before it, where $ is the end of s or the place before a final "\n"
base_without_number(s) ==
    LET LastNot(t, n, In(_)) ==
            IF \A i \in 1..n : In(t[i]) THEN 0
            ELSE CHOOSE i \in 1..n : ~In(t[i]) /\ \A j \in (i + 1)..n : In(t[j])
        Cut(t) == IF t = <<>> \/ ~IsDigit(t[Len(t)]) THEN t
                  ELSE SubSeq(t, 1, LastNot(t, LastNot(t, Len(t), IsDigit), IsSpace))
    IN  IF Len(s) > 1 /\ s[Len(s)] = "\n" /\ IsDigit(s[Len(s) - 1])
        THEN Cut(SubSeq(s, 1, Len(s) - 1)) \o <<"\n">>
        ELSE Cut(s)

\* matching_files[:1]
first_slice(found) == IF found = <<>> THEN <<>> ELSE <<found[1]>>

\* line 120
exact_match(normalized_company_name, normalized_filename) ==
    normalized_company_name = normalized_filename

\* a faulty variant of fuzzy_match: the threshold included
fuzzy_match_at_threshold(normalized_company_name, normalized_filename) ==
    \/ ScoreGe(fuzz_ratio(normalized_company_name, normalized_filename),
               <<FuzzyThreshold, 1>>)
    \/ ScoreGe(fuzz_ratio(normalized_company_name,
                          base_without_number(normalized_filename)),
               <<FuzzyThreshold, 1>>)

\* lines 125-129
fuzzy_match(normalized_company_name, normalized_filename) ==
    \/ ScoreGt(fuzz_ratio(normalized_company_name, normalized_filename),
               <<FuzzyThreshold, 1>>)
    \/ ScoreGt(fuzz_ratio(normalized_company_name,
                          base_without_number(normalized_filename)),
               <<FuzzyThreshold, 1>>)

\* a faulty variant of scan_directory: an exact match is collected like a fuzzy one
\* and the loop goes on
RECURSIVE scan_directory_no_return(_, _, _, _)
scan_directory_no_return(ncn, files, i, found) ==
    IF i > Len(files) THEN first_slice(found)
    ELSE IF ~EndsWith(files[i], DotCsv)
         THEN scan_directory_no_return(ncn, files, i + 1, found)
         ELSE LET nfn == normalize_string(splitext_base(files[i]))
              IN  IF exact_match(ncn, nfn) \/ fuzzy_match(ncn, nfn)
                  THEN scan_directory_no_return(ncn, files, i + 1,
                                                Append(found, files[i]))
                  ELSE scan_directory_no_return(ncn, files, i + 1, found)

\* the loop of lines 110-131 from file i on, and the return of line 142
RECURSIVE scan_directory(_, _, _, _)
scan_directory(ncn, files, i, found) ==
    IF i > Len(files) THEN first_slice(found)
    ELSE IF ~EndsWith(files[i], DotCsv)
         THEN scan_directory(ncn, files, i + 1, found)
         ELSE LET nfn == normalize_string(splitext_base(files[i]))
              IN  IF exact_match(ncn, nfn) THEN <<files[i]>>
                  ELSE IF fuzzy_match(ncn, nfn)
                       THEN scan_directory(ncn, files, i + 1,
                                           Append(found, files[i]))
                       ELSE scan_directory(ncn, files, i + 1, found)

\* os.listdir(csv_directory): a directory is the sequence of its files in
\* enumeration order, each with its name and its content
listdir(directory) == [i \in 1..Len(directory) |-> directory[i].name]

\* find_matching_csv_files(company_name, csv_directory); a path is its file name
find_matching_csv_files(name, directory) ==
    scan_directory(normalize_string(name), listdir(directory), 1, <<>>)

(***************************************************************************)
(* dict: a sequence of <<key, value>> pairs, keys distinct, in insertion   *)
(* order.                                                                  *)
(***************************************************************************)
DictHas(d, key) == \E i \in 1..Len(d) : d[i][1] = key

\* d.get(key, default)
DictGet(d, key, default) ==
    IF DictHas(d, key)
    THEN d[CHOOSE i \in 1..Len(d) : d[i][1] = key][2]
    ELSE default

\* d[key] = value
DictSet(d, key, value) ==
    IF DictHas(d, key)
    THEN [i \in 1..Len(d) |-> IF d[i][1] = key THEN <<key, value>> ELSE d[i]]
    ELSE Append(d, <<key, value>>)

\* {f(key): value for key, value in pairs}, built left to right
RECURSIVE DictOf(_, _, _)
DictOf(pairs, i, acc) ==
    IF i > Len(pairs) THEN acc
    ELSE DictOf(pairs, i + 1, DictSet(acc, pairs[i][1], pairs[i][2]))

(***************************************************************************)
(* Natural numbers of any size, as the sequence of their decimal digits,   *)
(* most significant first and without leading zeros (<<>> is 0).           *)
(***************************************************************************)
Zeros(n) == SubSeq([i \in 1..n |-> 0], 1, n)

IsOdd(a) == a # <<>> /\ a[Len(a)] % 2 = 1

\* a < b
Less(a, b) ==
    \/ Len(a) < Len(b)
    \/ /\ Len(a) = Len(b)
       /\ \E i \in 1..Len(a) : a[i] < b[i] /\ \A j \in 1..(i - 1) : a[j] = b[j]

\* 2 * a: the carry into a digit is 1 when the digit after it is 5 or more
Twice(a) ==
    LET Low(n) == [i \in 1..n |->
                     ((2 * a[i]) % 10) + (IF i < n /\ a[i + 1] >= 5 THEN 1 ELSE 0)]
    IN  (IF a # <<>> /\ a[1] >= 5 THEN <<1>> ELSE <<>>) \o Low(Len(a))

\* a \div 2: a digit gets 5 more when the digit before it is odd
Half(a) ==
    LET Digits(n) == [i \in 1..n |->
                        (a[i] \div 2) + (IF i > 1 /\ a[i - 1] % 2 = 1 THEN 5 ELSE 0)]
    IN  SubSeq(Digits(Len(a)), IF a # <<>> /\ a[1] = 1 THEN 2 ELSE 1, Len(a))

\* a + 1
Succ(a) ==
    LET Last(n) == IF \A i \in 1..n : a[i] = 9 THEN 0
                   ELSE CHOOSE i \in 1..n : a[i] # 9 /\ \A j \in (i + 1)..n : a[j] = 9
        Bump(n, p) == IF p = 0 THEN <<1>> \o Zeros(n)
                      ELSE SubSeq(a, 1, p - 1) \o <<a[p] + 1>> \o Zeros(n - p)
    IN  Bump(Len(a), Last(Len(a)))

\* a * 2^n and a * 5^n, in two halves (TLC evaluates an argument when it is
\* first read, so each half is read before the next is begun)
RECURSIVE TwiceN(_, _)
TwiceN(a, n) ==
    LET Then(b) == IF b = <<>> THEN b ELSE TwiceN(b, n - n \div 2)
    IN  IF n <= 0 THEN a
        ELSE IF n = 1 THEN Twice(a)
        ELSE Then(TwiceN(a, n \div 2))

RECURSIVE FiveTimesN(_, _)
FiveTimesN(a, n) ==
    LET Then(b) == IF b = <<>> THEN b ELSE FiveTimesN(b, n - n \div 2)
    IN  IF n <= 0 \/ a = <<>> THEN a
        ELSE IF n = 1 THEN Half(Append(a, 0))
        ELSE Then(FiveTimesN(a, n \div 2))

\* the digits of a without the zeros at its end, and how many they were
TrailingZeros(a) ==
    IF \A i \in 1..Len(a) : a[i] = 0 THEN Len(a)
    ELSE Len(a) - (CHOOSE i \in 1..Len(a) : a[i] # 0 /\ \A j \in (i + 1)..Len(a) : a[j] = 0)
LeadingZeros(a) ==
    IF \A i \in 1..Len(a) : a[i] = 0 THEN Len(a)
    ELSE (CHOOSE i \in 1..Len(a) : a[i] # 0 /\ \A j \in 1..(i - 1) : a[j] = 0) - 1

(***************************************************************************)
(* Numbers.  A Python float is the triple <<sign, m, k>> of its exact      *)
(* value sign * m / 10^k as Python writes it (repr, the shortest decimal   *)
(* that reads back as the same double): m is a natural number as above and *)
(* k >= 0 is least.  0.0 is Zero and -0.0 is <<-1, <<>>, 0>>; inf, -inf and *)
(* nan have k = -1.  A Python int is <<sign, m, 0>> with its own digits m, *)
(* and 0 is Zero.                                                          *)
(***************************************************************************)
Zero == <<0, <<>>, 0>>
ZeroOf(sign) == IF sign < 0 THEN <<-1, <<>>, 0>> ELSE Zero
Inf == <<1, <<>>, -1>>
NaN == <<0, <<>>, -1>>

\* math.isfinite(x)
IsFinite(x) == x[3] >= 0

\* x == y on numbers: nan equals nothing, and -0.0 equals 0.0
FloatEq(x, y) ==
    /\ x # NaN /\ y # NaN
    /\ x = y \/ (x[2] = <<>> /\ x[3] = 0 /\ y[2] = <<>> /\ y[3] = 0)

\* the number sign * d * 10^x, for digits d without zeros at either end
Finite(sign, d, x) ==
    IF d = <<>> THEN ZeroOf(sign)
    ELSE IF x >= 0 THEN <<sign, d \o Zeros(x), 0>> ELSE <<sign, d, -x>>

(***************************************************************************)
(* IEEE 754 binary64, which float() rounds to (to nearest, ties to even):  *)
(* a double is q * 2^e with q < 2^53 and e >= -1074; it is normal when     *)
(* q >= 2^52, its largest exponent is 971, and beyond that is inf.         *)
(***************************************************************************)
TwoTo52 == <<4,5,0,3,5,9,9,6,2,7,3,7,0,4,9,6>>
TwoTo53 == <<9,0,0,7,1,9,9,2,5,4,7,4,0,9,9,2>>
MinExponent == -1074
MaxExponent == 971
\* decimals of at most DblDig significant digits whose leading digit stands
\* between 10^-307 and 10^307 are the repr of the double they round to
DblDig == 15
SafeExponent == 307
\* 17 significant digits always tell a double from the others
MaxDigits == 17
\* a decimal whose leading digit stands at 10^310 or above rounds to inf,
\* one whose leading digit stands below 10^-330 to 0
HugeExponent == 310
TinyExponent == -330

\* one halving of q * 2^e, remembering the bit that fell off (round) and
\* whether anything fell off before it (sticky); nothing once q * 2^e is a
\* double
HalveStep(s) ==
    IF ~Less(s.q, TwoTo53) \/ s.e < MinExponent
    THEN [q |-> Half(s.q), e |-> s.e + 1, round |-> IsOdd(s.q),
          sticky |-> s.sticky \/ s.round]
    ELSE s

\* at most n halvings, in two halves
RECURSIVE Halvings(_, _)
Halvings(s, n) ==
    LET Then(t) == IF Less(t.q, TwoTo53) /\ t.e >= MinExponent THEN t
                   ELSE Halvings(t, n - n \div 2)
    IN  IF n <= 0 THEN s
        ELSE IF n = 1 THEN HalveStep(s)
        ELSE Then(Halvings(s, n \div 2))

\* round to nearest, ties to even
RoundStep(s) ==
    LET Carry(q) == IF q = TwoTo53 THEN [q |-> TwoTo52, e |-> s.e + 1]
                    ELSE [q |-> q, e |-> s.e]
    IN  IF s.round /\ (s.sticky \/ IsOdd(s.q)) THEN Carry(Succ(s.q))
        ELSE [q |-> s.q, e |-> s.e]

\* the same double with q >= 2^52 where the exponent allows
RECURSIVE Normal(_)
Normal(b) ==
    IF b.q # <<>> /\ Less(b.q, TwoTo52) /\ b.e > MinExponent
    THEN Normal([q |-> Twice(b.q), e |-> b.e - 1])
    ELSE b

\* the double nearest to d * 10^x, for digits d # <<>> without leading zeros:
\* [q, e] with q = <<>> for 0 and e > MaxExponent for inf.  For x < 0 the
\* digits are doubled j times, until d * 2^j / 10^-x has 17 digits or more
\* before the point, and the digits after the point are the sticky bit.
Binary(d, x) ==
    LET Doublings == IF x >= 0 THEN 0
                     ELSE (10 * Max(0, MaxDigits - x - Len(d)) + 2) \div 3
        Start(a, drop, j) ==
            Halvings([q |-> SubSeq(a, 1, Len(a) - drop), e |-> -j,
                      round |-> FALSE,
                      sticky |-> \E i \in (Len(a) - drop + 1)..Len(a) : a[i] # 0],
                     (10 * (Len(a) - drop)) \div 3 + 1 + Max(0, j + MinExponent))
        Whole(b) == IF b.q = <<>> THEN [q |-> <<>>, e |-> 0] ELSE b
        Begin(j) == IF x >= 0 THEN Start(d \o Zeros(x), 0, 0)
                    ELSE Start(TwiceN(d, j), -x, j)
    IN  Whole(Normal(RoundStep(Begin(Doublings))))

\* the exact decimal of the double q * 2^e, q > 0: <<digits, x>> for
\* digits * 10^x, without zeros at the end of the digits
Expansion(b) ==
    LET Cut(a, x) == <<SubSeq(a, 1, Len(a) - TrailingZeros(a)), x + TrailingZeros(a)>>
    IN  IF b.e >= 0 THEN Cut(TwiceN(b.q, b.e), 0)
        ELSE Cut(FiveTimesN(b.q, -b.e), b.e)

\* repr: the shortest decimal that rounds to the double b, and of those the
\* nearest to it.  With n digits the candidates are the first n digits of the
\* exact decimal X * 10^x and their successor.
RECURSIVE Shortest(_, _, _, _)
Shortest(b, X, x, n) ==
    LET up == \/ X[n + 1] > 5
              \/ /\ X[n + 1] = 5
                 /\ \/ \E i \in (n + 2)..Len(X) : X[i] # 0
                    \/ X[n] % 2 = 1
        Pick(f, c, e, ok) ==
            IF ok = {f, c} THEN (IF up THEN <<c, e>> ELSE <<f, e>>)
            ELSE IF ok = {f} THEN <<f, e>>
            ELSE IF ok = {c} THEN <<c, e>>
            ELSE Shortest(b, X, x, n + 1)
        Try(f, c, e) == Pick(f, c, e, {y \in {f, c} : Binary(y, e) = b})
    IN  IF Len(X) <= n THEN <<X, x>>
        ELSE Try(SubSeq(X, 1, n), Succ(SubSeq(X, 1, n)), x + Len(X) - n)

\* the float of the decimal sign * d * 10^x, for digits d without zeros at
\* either end
Double(sign, d, x) ==
    LET Short(r) == Finite(sign, SubSeq(r[1], 1, Len(r[1]) - TrailingZeros(r[1])),
                           r[2] + TrailingZeros(r[1]))
        Exact(b, X) == Short(Shortest(b, X[1], X[2], 1))
        Rounded(b) == IF b.q = <<>> THEN ZeroOf(sign)
                      ELSE IF b.e > MaxExponent THEN <<sign, <<>>, -1>>
                      ELSE Exact(b, Expansion(b))
    IN  IF d = <<>> THEN ZeroOf(sign)
        ELSE IF Len(d) <= DblDig /\ x + Len(d) - 1 >= -SafeExponent
                                 /\ x + Len(d) - 1 <= SafeExponent
             THEN Finite(sign, d, x)
        ELSE IF x + Len(d) - 1 >= HugeExponent THEN <<sign, <<>>, -1>>
        ELSE IF x + Len(d) - 1 < TinyExponent THEN ZeroOf(sign)
        ELSE Rounded(Binary(d, x))

(***************************************************************************)
(* float(s) and int(x).  float() removes the surrounding whitespace, then  *)
(* reads one sign and either inf, infinity or nan in any case, or digits   *)
(* with at most one point and at least one digit, then an exponent (e or   *)
(* E, one sign, digits); an underscore may stand between two digits.       *)
(* Anything else raises ValueError.                                        *)
(***************************************************************************)
\* an exponent's value, which stops growing at ExponentCap: such a number is
\* inf or 0 whatever its digits
ExponentCap == 100000000
RECURSIVE DigitsValue(_, _, _)
DigitsValue(s, i, acc) ==
    IF i > Len(s) \/ acc >= ExponentCap THEN acc
    ELSE DigitsValue(s, i + 1, 10 * acc + DigitValue(s[i]))

S_inf == <<"i","n","f">>
S_infinity == <<"i","n","f","i","n","i","t","y">>
S_nan == <<"n","a","n">>

float(s) ==
    LET Sign(t) == IF t # <<>> /\ t[1] = "-" THEN -1 ELSE 1
        Unsigned(t) == IF t # <<>> /\ t[1] \in {"+", "-"} THEN Tail(t) ELSE t
        Grouped(t) ==
            \A i \in 1..Len(t) :
                t[i] = "_" => /\ 1 < i /\ i < Len(t)
                              /\ IsDigit(t[i - 1]) /\ IsDigit(t[i + 1])
        ExpAt(u) ==
            IF \A i \in 1..Len(u) : u[i] \notin {"e", "E"} THEN Len(u) + 1
            ELSE CHOOSE i \in 1..Len(u) :
                     u[i] \in {"e", "E"} /\ \A j \in 1..(i - 1) : u[j] \notin {"e", "E"}
        Wellformed(body) ==
            /\ \A i \in 1..Len(body) : IsDigit(body[i]) \/ body[i] = "."
            /\ Len(SelectSeq(body, LAMBDA c : c = ".")) <= 1
            /\ SelectSeq(body, IsDigit) # <<>>
        Places(body) ==
            IF \A i \in 1..Len(body) : body[i] # "." THEN 0
            ELSE Len(body) - (CHOOSE i \in 1..Len(body) : body[i] = ".")
        ExponentOk(u, x) ==
            \/ ExpAt(u) > Len(u)
            \/ Unsigned(x) # <<>> /\ \A i \in 1..Len(Unsigned(x)) : IsDigit(Unsigned(x)[i])
        Values(t) == SubSeq([i \in 1..Len(t) |-> DigitValue(t[i])], 1, Len(t))
        Digits(body) == Values(SelectSeq(body, IsDigit))
        Trimmed(sign, d, x) ==
            Double(sign, SubSeq(d, LeadingZeros(d) + 1, Len(d) - TrailingZeros(d)),
                   x + TrailingZeros(d))
        Number(sign, u, body, x) ==
            IF ~Wellformed(body) \/ ~ExponentOk(u, x)
            THEN [raised |-> TRUE, value |-> Zero]
            ELSE [raised |-> FALSE,
                  value |-> Trimmed(sign, Digits(body),
                                    Sign(x) * DigitsValue(Unsigned(x), 1, 0)
                                      - Places(body))]
        Split(sign, u) ==
            Number(sign, u, SubSeq(u, 1, ExpAt(u) - 1), SubSeq(u, ExpAt(u) + 1, Len(u)))
        Value(sign, t) ==
            IF Lower(t) \in {S_inf, S_infinity}
            THEN [raised |-> FALSE, value |-> <<sign, <<>>, -1>>]
            ELSE IF Lower(t) = S_nan THEN [raised |-> FALSE, value |-> NaN]
            ELSE IF ~Grouped(t) THEN [raised |-> TRUE, value |-> Zero]
            ELSE Split(sign, SelectSeq(t, LAMBDA c : c # "_"))
        Parse(t) == Value(Sign(t), Unsigned(t))
    IN  Parse(StripOf(s, FloatSpaceSet))

\* int(x) of a finite float: truncation toward zero (int(inf) raises
\* OverflowError and int(nan) ValueError).  The result is the exact integer:
\* from 2^53 on every double is an integer, which its repr only rounds to
\* (int(1e23) is 99999999999999991611392)
int(x) ==
    LET Exact(b) == <<x[1], TwiceN(b.q, b.e), 0>>
        Whole(m, zeros) == Exact(Binary(SubSeq(m, 1, Len(m) - zeros), zeros))
    IN  IF Len(x[2]) <= x[3] THEN Zero
        ELSE IF x[3] = 0 /\ ~Less(x[2], TwoTo53) THEN Whole(x[2], TrailingZeros(x[2]))
        ELSE <<x[1], SubSeq(x[2], 1, Len(x[2]) - x[3]), 0>>

(***************************************************************************)
(* Reference tables.  A CSV file is its header line and its data lines,    *)
(* each a sequence of cells.  A file without any line has no header:       *)
(* csv.DictReader's fieldnames is None.                                    *)
(***************************************************************************)
\* csv.DictReader's row with the stripped field names of line 158: a short
\* line is filled with None, and the cells of a long line beyond the field
\* names are kept as a list under the key None
reader_row(fieldnames, cells) ==
    LET Rest(d) ==
            IF Len(fieldnames) < Len(cells)
            THEN DictSet(d, None, SubSeq(cells, Len(fieldnames) + 1, Len(cells)))
            ELSE d
    IN  Rest(DictOf([j \in 1..Len(fieldnames) |->
                       <<Strip(fieldnames[j]),
                         IF j <= Len(cells) THEN cells[j] ELSE None>>], 1, <<>>))

\* the rows load_csv_data appends for one file: csv.DictReader skips the
\* blank lines
file_rows(file) ==
    LET lines == SelectSeq(file.lines, LAMBDA line : line # <<>>)
    IN  [r \in 1..Len(lines) |-> reader_row(file.fieldnames, lines[r])]

\* load_csv_data(csv_file_paths): line 158 raises TypeError on the field
\* names of a file without any line
RECURSIVE load_csv_data(_, _, _, _)
load_csv_data(paths, directory, i, acc) ==
    LET Load(file) ==
            IF file.fieldnames = None THEN [raised |-> TRUE, data |-> <<>>]
            ELSE load_csv_data(paths, directory, i + 1, acc \o file_rows(file))
    IN  IF i > Len(paths) THEN [raised |-> FALSE, data |-> acc]
        ELSE Load(directory[CHOOSE k \in 1..Len(directory) :
                                directory[k].name = paths[i]])

\* extract_matching_csv_data(company_name, csv_directory)
extract_matching_csv_data(name, directory) ==
    LET Data(files) ==
            IF Len(files) = 1 THEN load_csv_data(files, directory, 1, <<>>)
            ELSE [raised |-> FALSE, data |-> <<>>]
    IN  Data(find_matching_csv_files(name, directory))

(***************************************************************************)
(* The candidate matcher.                                                  *)
(***************************************************************************)
S_Description == <<"D","e","s","c","r","i","p","t","i","o","n">>
S_UnitCost == <<"U","n","i","t"," ","C","o","s","t">>
S_TotalQuantity == <<"T","o","t","a","l"," ","Q","u","a","n","t","i","t","y">>
S_AgreementName == <<"A","g","r","e","e","m","e","n","t"," ","N","a","m","e">>
S_NoDescriptionFound == <<"N","o"," ","D","e","s","c","r","i","p","t","i","o","n",
                          " ","F","o","u","n","d">>
S_cost == <<"c","o","s","t">>
S_quantity == <<"q","u","a","n","t","i","t","y">>
S_0 == <<"0">>

selected_fields == {S_Description, S_UnitCost, S_TotalQuantity, S_AgreementName}

\* next((col for col in row.keys() if word in col.lower()), None)
find_column(row, word) ==
    LET hits == {i \in 1..Len(row) : Contains(Lower(row[i][1]), word)}
    IN  IF hits = {} THEN None
        ELSE row[CHOOSE i \in hits : \A j \in hits : i <= j][1]

\* a faulty variant of column_text: a row without the column gets "1"
column_text_one(row, column) ==
    IF column # None THEN DictGet(row, column, S_0) ELSE <<"1">>

\* lines 209-210 before .replace: row.get(column, "0") if column else "0"
column_text(row, column) ==
    IF column # None THEN DictGet(row, column, S_0) ELSE S_0

\* line 218
gate(csv_cost, csv_qty, pdf_cost, pdf_qty) ==
    FloatEq(csv_cost, pdf_cost) /\ csv_qty = pdf_qty

\* lines 199-224 for one row: what it raises, whether it passes the gate, and
\* the match it appends.  key.strip() raises on the key None of a long line,
\* normalize_string and .replace on a None value, float() on a text that is
\* no number, and int() on inf and nan
match_row(record, raw_row) ==
    LET nothing == [data |-> <<>>, relevance |-> <<0, 1>>]
        Number(text) == IF text = None THEN [raised |-> TRUE, value |-> Zero]
                        ELSE float(RemoveCommas(text))
        Compare(row, description, csv_cost, csv_qty) ==
            IF \/ description = None
               \/ csv_qty.raised \/ ~IsFinite(csv_qty.value)
               \/ csv_cost.raised
            THEN [raised |-> TRUE, hit |-> FALSE, match |-> nothing]
            ELSE IF gate(csv_cost.value, int(csv_qty.value),
                         record.NetUnitPrice, record.Qty)
                 THEN [raised |-> FALSE, hit |-> TRUE,
                       match |-> [data |-> SelectSeq(row,
                                            LAMBDA kv : kv[1] \in selected_fields),
                                  relevance |->
                                      fuzz_ratio(normalize_string(record.Description),
                                                 normalize_string(description))]]
                 ELSE [raised |-> FALSE, hit |-> FALSE, match |-> nothing]
        Match(row) ==
            Compare(row,
                    DictGet(row, S_Description, S_NoDescriptionFound),
                    Number(column_text(row, find_column(row, S_cost))),
                    Number(column_text(row, find_column(row, S_quantity))))
    IN  IF \E i \in 1..Len(raw_row) : raw_row[i][1] = None
        THEN [raised |-> TRUE, hit |-> FALSE, match |-> nothing]
        ELSE Match(DictOf([i \in 1..Len(raw_row) |->
                             <<Strip(raw_row[i][1]), raw_row[i][2]>>], 1, <<>>))

\* a faulty variant of insert_sorted: a match goes before the matches of equal relevance
insert_sorted_before_ties(sorted, m) ==
    LET before == {i \in 1..Len(sorted) : ScoreGt(sorted[i].relevance, m.relevance)}
        n == Cardinality(before)
    IN  SubSeq(sorted, 1, n) \o <<m>> \o SubSeq(sorted, n + 1, Len(sorted))

\* sorted(..., reverse=True) is stable: a match goes after the matches of
\* greater or equal relevance that precede it
insert_sorted(sorted, m) ==
    LET before == {i \in 1..Len(sorted) : ScoreGe(sorted[i].relevance, m.relevance)}
        n == Cardinality(before)
    IN  SubSeq(sorted, 1, n) \o <<m>> \o SubSeq(sorted, n + 1, Len(sorted))

\* line 227
RECURSIVE sort_by_relevance(_, _, _)
sort_by_relevance(ms, i, acc) ==
    IF i > Len(ms) THEN acc
    ELSE sort_by_relevance(ms, i + 1, insert_sorted(acc, ms[i]))

\* the loop of lines 197-224 from row i on
RECURSIVE collect_matches(_, _, _, _)
collect_matches(record, rows, i, acc) ==
    LET Rest(r) == IF r.raised THEN [raised |-> TRUE, matches |-> <<>>]
                   ELSE collect_matches(record, rows, i + 1,
                                        IF r.hit THEN Append(acc, r.match) ELSE acc)
    IN  IF i > Len(rows) THEN [raised |-> FALSE, matches |-> acc]
        ELSE Rest(match_row(record, rows[i]))

\* find_matching_additions(pdf_record, csv_data)
find_matching_additions(record, rows) ==
    LET Sorted(found) ==
            IF found.raised THEN found
            ELSE [raised |-> FALSE,
                  matches |-> sort_by_relevance(found.matches, 1, <<>>)]
    IN  Sorted(collect_matches(record, rows, 1, <<>>))

(***************************************************************************)
(* The record cleaner.  A raw row is a sequence of cells, each a str or    *)
(* None; a table is a sequence of rows, the header first.                  *)
(***************************************************************************)
MinCells == 11

S_Subscription == <<"S","u","b","s","c","r","i","p","t","i","o","n">>
S_0_00 == <<"0",".","0","0">>

\* the position after n digits from position i, or 0
AfterDigits(s, i, n) ==
    IF i > 0 /\ i + n - 1 <= Len(s) /\ \A j \in i..(i + n - 1) : IsDigit(s[j])
    THEN i + n ELSE 0

\* the position after a run of whitespace from position i (\s*)
RECURSIVE AfterSpaces(_, _)
AfterSpaces(s, i) ==
    IF i > 0 /\ i <= Len(s) /\ IsSpace(s[i]) THEN AfterSpaces(s, i + 1) ELSE i

\* the position after a nonempty run of whitespace from position i (\s+), or 0
AfterSpaces1(s, i) ==
    IF i > 0 /\ i <= Len(s) /\ IsSpace(s[i]) THEN AfterSpaces(s, i) ELSE 0

\* the position after the literal from position i, or 0
AfterLiteral(s, i, lit) ==
    IF i > 0 /\ i + Len(lit) - 1 <= Len(s) /\ SubSeq(s, i, i + Len(lit) - 1) = lit
    THEN i + Len(lit) ELSE 0

\* lines 37-43: re.sub(r"^\d{8}\s+Subscription\s+#\d{7}:\s+", "", text)
clean_description(cell) ==
    LET text == IF cell = None \/ cell = <<>> THEN <<>> ELSE Strip(cell)
        p1 == AfterSpaces1(text, AfterDigits(text, 1, 8))
        p2 == AfterSpaces1(text, AfterLiteral(text, p1, S_Subscription))
        p3 == AfterDigits(text, AfterLiteral(text, p2, <<"#">>), 7)
        p4 == AfterSpaces1(text, AfterLiteral(text, p3, <<":">>))
    IN  IF p4 > 0 THEN SubSeq(text, p4, Len(text)) ELSE text

\* re.sub(r"[\n\r]+", " ", s): every run of line breaks becomes one space
RECURSIVE replace_newlines(_, _, _)
replace_newlines(s, i, acc) ==
    IF i > Len(s) THEN acc
    ELSE IF s[i] \in {"\n", "\r"}
         THEN IF i > 1 /\ s[i - 1] \in {"\n", "\r"}
              THEN replace_newlines(s, i + 1, acc)
              ELSE replace_newlines(s, i + 1, Append(acc, " "))
         ELSE replace_newlines(s, i + 1, Append(acc, s[i]))

\* lines 48-50: re.sub(r"^\d{10}\s*|[\n\r]+", " ", text); the replacement of
\* either alternative is one space
sub_customer_prefix(text) ==
    LET p == AfterSpaces(text, AfterDigits(text, 1, 10))
    IN  IF p > 0
        THEN <<" ">> \o replace_newlines(SubSeq(text, p, Len(text)), 1, <<>>)
        ELSE replace_newlines(text, 1, <<>>)

\* lines 46-50
clean_customer(cell) ==
    sub_customer_prefix(IF cell = None \/ cell = <<>> THEN <<>> ELSE Strip(cell))

\* lines 53-58 and 76: the quantity, or the ValueError of float(), or the
\* OverflowError of int() on the inf of more digits than a double holds
clean_qty(cell) ==
    LET Convert(cleaned_qty, parsed) ==
            IF cleaned_qty = <<>> THEN [raised |-> FALSE, value |-> Zero]
            ELSE IF parsed.raised \/ ~IsFinite(parsed.value)
                 THEN [raised |-> TRUE, value |-> Zero]
            ELSE [raised |-> FALSE, value |-> int(parsed.value)]
        Clean(cleaned_qty) == Convert(cleaned_qty, float(cleaned_qty))
    IN  Clean(SelectSeq(IF cell = None \/ cell = <<>> THEN <<>> ELSE Strip(cell),
                        LAMBDA c : IsDigit(c) \/ c = "."))

\* lines 61-63 and 66-67: a blank cell is "0.00"; then float(text.replace(",", ""))
clean_amount(cell) ==
    LET original == IF cell = None \/ cell = <<>> \/ Strip(cell) = <<>>
                    THEN S_0_00 ELSE Strip(cell)
    IN  float(RemoveCommas(original))

\* lines 36-80 for one row of at least 11 cells
clean_row(row) ==
    LET Record(qty, price, total) ==
            [raised |-> qty.raised \/ price.raised \/ total.raised,
             record |-> [Number |-> row[1],
                         EndCustomer |-> clean_customer(row[2]),
                         Description |-> clean_description(row[5]),
                         NetUnitPrice |-> price.value,
                         Qty |-> qty.value,
                         TotalAmount |-> total.value,
                         SOPONumber |-> IF row[6] = None \/ row[6] = <<>>
                                        THEN <<>> ELSE Strip(row[6])]]
    IN  Record(clean_qty(row[9]), clean_amount(row[10]), clean_amount(row[11]))

\* lines 31-80 for one table: the rows after the header, from row i on
RECURSIVE clean_rows(_, _, _)
clean_rows(table, i, acc) ==
    LET Rest(r) == IF r.raised THEN [raised |-> TRUE, data |-> <<>>]
                   ELSE clean_rows(table, i + 1, Append(acc, r.record))
    IN  IF i > Len(table) THEN [raised |-> FALSE, data |-> acc]
        ELSE IF Len(table[i]) >= MinCells THEN Rest(clean_row(table[i]))
        ELSE clean_rows(table, i + 1, acc)

\* lines 25-80: the pages from page p on; a page without a table is <<>>
RECURSIVE clean_pages(_, _, _)
clean_pages(pages, p, acc) ==
    LET Rest(r) == IF r.raised THEN r ELSE clean_pages(pages, p + 1, r.data)
    IN  IF p > Len(pages) THEN [raised |-> FALSE, data |-> acc]
        ELSE IF pages[p] = <<>> THEN clean_pages(pages, p + 1, acc)
        ELSE Rest(clean_rows(pages[p], 2, acc))

\* extract_pdf(pdf_path): the document is its pages' tables
extract_pdf(pages) == clean_pages(pages, 1, <<>>)

(***************************************************************************)
(* The driver and the report writer.                                       *)
(***************************************************************************)
\* lines 242-249 for one record
record_matches(record, directory) ==
    LET Entry(found) ==
            [raised |-> found.raised,
             entry |-> [pdf |-> record,
                        matches |-> [i \in 1..Len(found.matches) |->
                                       [score |-> found.matches[i].relevance,
                                        data |-> found.matches[i].data]]]]
        Found(csv) ==
            IF csv.raised THEN [raised |-> TRUE, matches |-> <<>>]
            ELSE find_matching_additions(record, csv.data)
    IN  Entry(Found(extract_matching_csv_data(record.EndCustomer, directory)))

\* the loop of lines 239-249 from record i on
RECURSIVE all_matches(_, _, _, _)
all_matches(records, directory, i, acc) ==
    LET Rest(r) == IF r.raised THEN [raised |-> TRUE, matches |-> <<>>]
                   ELSE all_matches(records, directory, i + 1, Append(acc, r.entry))
    IN  IF i > Len(records) THEN [raised |-> FALSE, matches |-> acc]
        ELSE Rest(record_matches(records[i], directory))

\* get_pdf_matches(pdf_path, csv_directory)
get_pdf_matches(pages, directory) ==
    LET Matched(extracted) ==
            IF extracted.raised THEN [raised |-> TRUE, matches |-> <<>>]
            ELSE all_matches(extracted.data, directory, 1, <<>>)
    IN  Matched(extract_pdf(pages))

\* a faulty variant of no_matches: the test inverted
no_matches_inverted(matching_records) == matching_records # <<>>

\* line 265: if not matching_records
no_matches(matching_records) == matching_records = <<>>

\* lines 275-279
headers == <<"Number", "End-Customer", "Description", "Qty", "Net Unit Price",
             "Total Amount", "SO/PO Number", "Match Description", "Match Cost",
             "Match Quantity", "Agreement Name", "Match Score">>

\* lines 304-310 and 321-327
pdf_cells(record) ==
    <<record.Number, record.EndCustomer, record.Description, record.Qty,
      record.NetUnitPrice, record.TotalAmount, record.SOPONumber>>

\* lines 311-314 raise KeyError when the match's data lacks one of the labels
match_writable(match) == \A label \in selected_fields : DictHas(match.data, label)

\* lines 303-317
match_row_cells(record, match) ==
    pdf_cells(record) \o
    <<DictGet(match.data, S_Description, None), DictGet(match.data, S_UnitCost, None),
      DictGet(match.data, S_TotalQuantity, None),
      DictGet(match.data, S_AgreementName, None), match.score>>

\* lines 320-329
blank_row_cells(record) == pdf_cells(record) \o <<<<>>, <<>>, <<>>, <<>>>>

\* lines 301-329 for one entry: the rows written, up to the first match whose
\* row cannot be built
entry_rows(entry) ==
    IF entry.matches = <<>> THEN <<blank_row_cells(entry.pdf)>>
    ELSE LET bad == {i \in 1..Len(entry.matches) : ~match_writable(entry.matches[i])}
             n == IF bad = {} THEN Len(entry.matches)
                  ELSE (CHOOSE i \in bad : \A j \in bad : i <= j) - 1
         IN  [i \in 1..n |-> match_row_cells(entry.pdf, entry.matches[i])]

entry_raises(entry) == \E i \in 1..Len(entry.matches) : ~match_writable(entry.matches[i])

(***************************************************************************)
(* Inputs.                                                                 *)
(***************************************************************************)
MaxPages == 1
MaxRows == 1
MaxFiles == 3
MaxRefRows == 3
MaxRecords == 3
MaxBatch == 3
MaxTables == 2

\* the sequences over S of length at most n
SeqsUpTo(S, n) == UNION {[1..k -> S] : k \in 0..n}

\* the directories of at most n files of F: file names are distinct
Directories(F, n) ==
    {d \in SeqsUpTo(F, n) :
        \A i \in 1..Len(d) : \A j \in 1..Len(d) : i # j => d[i].name # d[j].name}

\* a raw row of 11 cells
RawRow(number, customer, description, po, qty, price, total) ==
    <<number, customer, None, None, description, po, None, None, qty, price, total>>

HeaderRow == RawRow(<<"N","u","m","b","e","r">>, <<"E","n","d","-","C","u","s","t","o","m","e","r">>, <<"D","e","s","c","r","i","p","t","i","o","n">>, <<"S","O","/","P","O">>, <<"Q","t","y">>, <<"P","r","i","c","e">>, <<"T","o","t","a","l">>)

\* the documents of at most MaxPages pages, each without a table or with a
\* header and at most n rows of R
Documents(R, n) ==
    LET tables == {<<>>} \cup {<<HeaderRow>> \o rows : rows \in SeqsUpTo(R, n)}
    IN  UNION {[1..k -> tables] : k \in 1..MaxPages}

\* the rows of a document that reach the cleaner, in order
RECURSIVE LongRows(_, _)
LongRows(pages, p) ==
    IF p > Len(pages) THEN <<>>
    ELSE (IF pages[p] = <<>> THEN <<>>
          ELSE SelectSeq(Tail(pages[p]), LAMBDA row : Len(row) >= MinCells))
         \o LongRows(pages, p + 1)

CustomerCells ==
    {None,
     <<"9","8","7","6","5","4","3","2","1","0"," ","A","c","m","e"," ","C","o","r","p">>,
     <<"A","c","m","e","\n","C","o","r","p">>,
     <<"A","c","m","e"," ","C","o","r","p">>,
     <<"\\xa0","9","8","7","6","5","4","3","2","1","0","\\x0b","A","c","m","e">>}
DescriptionCells ==
    {<<"2","0","1","8","0","1","0","1"," ","S","u","b","s","c","r","i","p","t","i","o","n"," ","#","1","2","3","4","5","6","7",":"," ","W","i","d","g","e","t"," ","P","r","o">>,
     <<"W","i","d","g","e","t"," ","P","r","o">>,
     <<"2","0","1","8","0","1","0","1","\\xa0","S","u","b","s","c","r","i","p","t","i","o","n"," ","#","1","2","3","4","5","6","7",":","\\u2003","K","i","t">>}
QtyCells ==
    {None,
     <<"1","0">>,
     <<"1",",","0","0","0">>,
     <<"1","0"," ","p","c","s">>,
     <<"1",".","2",".","3">>,
     <<".">>,
     <<"\\u0663"," ","p","c","s">>}
PriceCells ==
    {None,
     <<" ">>,
     <<"2","5",".","0","0">>,
     <<"1",",","2","5","0",".","5","0">>,
     <<"$","2","5",".","0","0">>,
     <<"N","/","A">>,
     <<"2",".","5","e","1">>,
     <<"n","a","n">>}
TotalCells ==
    {<<"2","5","0",".","0","0">>,
     <<"n","/","a">>}

ExtractRows ==
    {RawRow(<<"1","0","0","1">>, c, d, <<"P","O","-","5","5">>, q, p, t) :
        c \in CustomerCells, d \in DescriptionCells, q \in QtyCells,
        p \in PriceCells, t \in TotalCells}
    \cup {<<<<"1","0","0","1">>, <<"A","c","m","e"," ","C","o","r","p">>>>}

ExtractDocuments == Documents(ExtractRows, MaxRows)

\* a CSV file
CsvFile(name, fieldnames, lines) ==
    [name |-> name, fieldnames |-> fieldnames, lines |-> lines]

FourColumns == <<S_Description, S_UnitCost, S_TotalQuantity, S_AgreementName>>

\* the resolver's directory: every file holds one row naming the file
ResolveNames ==
    {<<"A","c","m","e">>,
     <<" ","a","c","m","e",".">>,
     <<"A","c","m","e","s">>,
     <<"B","e","t","a"," ","I","n","c">>,
     <<"\\xa0","A","c","\\xa0","m","e">>}
ResolveFileNames ==
    {<<"A","c","m","e",".","c","s","v">>,
     <<"A","C","M","E","!",".","c","s","v">>,
     <<"A","c","m","e"," ","2",".","c","s","v">>,
     <<"A","c","m","e","s",".","c","s","v">>,
     <<"A","c","m","e","c","o",".","c","s","v">>,
     <<"B","e","t","a",".","c","s","v">>,
     <<"A","c","m","e",".","t","x","t">>,
     <<"A","c","m","e","2",".","c","s","v">>,
     <<"A","c","\\xa0","m","e","\\xa0","2",".","c","s","v">>}
\* a blank line comes before the file's row; two files without any line
ResolveFiles ==
    {CsvFile(n, FourColumns,
             <<<<>>, <<<<"K","i","t">>, <<"2","5",".","0","0">>, <<"1","0">>, n>>>>) :
        n \in ResolveFileNames}
    \cup {CsvFile(<<"A","c","m","e",".","c","s","v">>, None, <<>>),
          CsvFile(<<"A","c","m","e","s",".","c","s","v">>, None, <<>>)}

ResolveDirectories == Directories(ResolveFiles, MaxFiles)

(***************************************************************************)
(* The record cleaner applied to a document.                               *)
(***************************************************************************)
Idle == <<>>

InitExtract ==
    /\ pc = "start"
    /\ pdf \in ExtractDocuments
    /\ csv_directory = Idle /\ company_name = Idle /\ matching_files = Idle
    /\ pdf_record = Idle /\ csv_data = Idle /\ additions = Idle
    /\ pdf_data = Idle /\ matches = Idle /\ seen_numbers = {}
    /\ written = Idle /\ entry_idx = 0 /\ unmatched_records = Idle

\* pdf_data = extract_pdf(pdf_path)
ExtractPdf ==
    /\ pc = "start"
    /\ LET Return(r) == /\ pdf_data' = r.data
                         /\ pc' = IF r.raised THEN "raised" ELSE "extracted"
       IN  Return(extract_pdf(pdf))
    /\ UNCHANGED <<pdf, csv_directory, company_name, matching_files, pdf_record,
                   csv_data, additions, matches, seen_numbers, written,
                   entry_idx, unmatched_records>>

NextExtract == ExtractPdf

SpecExtract == InitExtract /\ [][NextExtract]_vars

\* the numeric text of a quantity cell after line 55, of an amount cell after
\* line 63
QtyText(cell) ==
    SelectSeq(IF cell = None THEN <<>> ELSE Strip(cell),
              LAMBDA c : IsDigit(c) \/ c = ".")
AmountText(cell) ==
    RemoveCommas(IF cell = None \/ Strip(cell) = <<>> THEN S_0_00 ELSE Strip(cell))

\* C7: cleaning a document never raises: every row of at least 11 cells gives
\* a record, and a quantity, unit price or total amount that does not parse as
\* a number after cleanup is 0 in that record.
C7_UnparseableNumericsNeverRaise ==
    pc # "start" =>
        /\ pc = "extracted"
        /\ Len(pdf_data) = Len(LongRows(pdf, 1))
        /\ \A k \in 1..Len(pdf_data) :
              LET row == LongRows(pdf, 1)[k]
              IN  /\ float(QtyText(row[9])).raised => pdf_data[k].Qty = Zero
                  /\ float(AmountText(row[10])).raised
                        => pdf_data[k].NetUnitPrice = Zero
                  /\ float(AmountText(row[11])).raised
                        => pdf_data[k].TotalAmount = Zero

\* whether the cell is exactly 10 digits, whitespace, and a name without line
\* breaks; the name
HasCustomerPrefix(cell) ==
    /\ cell # None
    /\ Strip(cell) = cell
    /\ AfterDigits(cell, 1, 10) > 0
    /\ AfterSpaces1(cell, 11) > 0
    /\ \A i \in 1..Len(cell) : cell[i] \notin {"\n", "\r"}
NameAfterPrefix(cell) == SubSeq(cell, AfterSpaces(cell, 11), Len(cell))

\* C9: a row whose cell 1 is 10 digits, whitespace and a name N without line
\* breaks is cleaned to the entity name N exactly.
C9_EntityNameIsTheName ==
    pc = "extracted" =>
        \A k \in 1..Len(pdf_data) :
            LET cell == LongRows(pdf, 1)[k][2]
            IN  HasCustomerPrefix(cell)
                    => pdf_data[k].EndCustomer = NameAfterPrefix(cell)

(***************************************************************************)
(* The table resolver applied to an entity name and a directory.           *)
(***************************************************************************)
InitResolve ==
    /\ pc = "start"
    /\ company_name \in ResolveNames
    /\ csv_directory \in ResolveDirectories
    /\ pdf = Idle /\ matching_files = Idle
    /\ pdf_record = Idle /\ csv_data = Idle /\ additions = Idle
    /\ pdf_data = Idle /\ matches = Idle /\ seen_numbers = {}
    /\ written = Idle /\ entry_idx = 0 /\ unmatched_records = Idle

\* line 170: matching_files = find_matching_csv_files(company_name, csv_directory)
FindMatchingCsvFiles ==
    /\ pc = "start"
    /\ matching_files' = find_matching_csv_files(company_name, csv_directory)
    /\ pc' = "resolved"
    /\ UNCHANGED <<pdf, csv_directory, company_name, pdf_record, csv_data,
                   additions, pdf_data, matches, seen_numbers, written,
                   entry_idx, unmatched_records>>

\* lines 172-178: what extract_matching_csv_data returns
ExtractMatchingCsvData ==
    /\ pc = "resolved"
    /\ LET Return(r) == /\ csv_data' = r.data
                         /\ pc' = IF r.raised THEN "raised" ELSE "loaded"
       IN  Return(extract_matching_csv_data(company_name, csv_directory))
    /\ UNCHANGED <<pdf, csv_directory, company_name, matching_files, pdf_record,
                   additions, pdf_data, matches, seen_numbers, written,
                   entry_idx, unmatched_records>>

NextResolve == FindMatchingCsvFiles \/ ExtractMatchingCsvData

SpecResolve == InitResolve /\ [][NextResolve]_vars

\* the tables of the directory, by position: the .csv files; a table's
\* normalized identifier
Tables == {i \in 1..Len(csv_directory) : EndsWith(csv_directory[i].name, DotCsv)}
Identifier(i) == normalize_string(splitext_base(csv_directory[i].name))

\* the tables whose identifier normalizes to the normalized entity name
ExactTables == {i \in Tables : Identifier(i) = normalize_string(company_name)}

\* the tables scoring above 80 against the normalized entity name, with or
\* without the identifier's trailing number
Above80(score) == score[1] > 80 * score[2]
FuzzyTables ==
    {i \in Tables :
        \/ Above80(fuzz_ratio(normalize_string(company_name), Identifier(i)))
        \/ Above80(fuzz_ratio(normalize_string(company_name),
                              base_without_number(Identifier(i))))}

First(I) == CHOOSE i \in I : \A j \in I : i <= j

\* C1: when some table's identifier normalizes to the normalized entity name,
\* resolution returns exactly the first such table in enumeration order,
\* whatever the fuzzy scores of the other tables.
C1_ExactMatchPrecedence ==
    (pc # "start" /\ ExactTables # {})
        => matching_files = <<csv_directory[First(ExactTables)].name>>

\* an exact table is returned although a fuzzy table comes before it and
\* another after it
C1_Witness ==
    /\ pc = "resolved"
    /\ ExactTables # {}
    /\ \E i \in FuzzyTables \ ExactTables : i < First(ExactTables)
    /\ \E k \in FuzzyTables \ ExactTables : k > First(ExactTables)
    /\ matching_files = <<csv_directory[First(ExactTables)].name>>

\* C5: without an exact table, resolution returns the first table in
\* enumeration order scoring strictly above 80, and no table when there is
\* none; the returned table's rows are loaded, also when several tables
\* score above 80 (a returned file without a header line has no rows to load,
\* and loading it raises).
C5_FuzzyResolution ==
    (pc \in {"loaded", "raised"} /\ ExactTables = {}) =>
        IF FuzzyTables = {}
        THEN matching_files = <<>> /\ csv_data = <<>> /\ pc = "loaded"
        ELSE /\ matching_files = <<csv_directory[First(FuzzyTables)].name>>
             /\ csv_directory[First(FuzzyTables)].fieldnames # None
                    => /\ pc = "loaded"
                       /\ csv_data = file_rows(csv_directory[First(FuzzyTables)])
                       /\ csv_data # <<>>

\* two tables score above 80, a table scoring exactly 80 comes before them,
\* and the first of the two is loaded
C5_Witness ==
    /\ pc = "loaded"
    /\ ExactTables = {}
    /\ Cardinality(FuzzyTables) >= 2
    /\ \E i \in Tables :
          /\ i < First(FuzzyTables)
          /\ fuzz_ratio(normalize_string(company_name), Identifier(i)) = <<80, 1>>
    /\ matching_files = <<csv_directory[First(FuzzyTables)].name>>
    /\ csv_data = file_rows(csv_directory[First(FuzzyTables)])

(***************************************************************************)
(* The candidate matcher applied to a record and reference rows.           *)
(***************************************************************************)
\* reference rows as load_csv_data returns them
RefRows ==
    {<<<<<<"D","e","s","c","r","i","p","t","i","o","n">>, <<"K","i","t">>>>,
       <<<<"U","n","i","t"," ","C","o","s","t">>, <<"2","5",".","0","0">>>>,
       <<<<"T","o","t","a","l"," ","Q","u","a","n","t","i","t","y">>, <<"1","0">>>>,
       <<<<"A","g","r","e","e","m","e","n","t"," ","N","a","m","e">>, <<"A","1">>>>>>,
     <<<<<<"D","e","s","c","r","i","p","t","i","o","n">>, <<"K","i","t">>>>,
       <<<<"U","n","i","t"," ","C","o","s","t">>, <<"2",".","5","e","1">>>>,
       <<<<"T","o","t","a","l"," ","Q","u","a","n","t","i","t","y">>, <<"1","_","0",".","0">>>>,
       <<<<"A","g","r","e","e","m","e","n","t"," ","N","a","m","e">>, <<"A","2">>>>>>,
     <<<<<<"D","e","s","c","r","i","p","t","i","o","n">>, <<"K","i","t","s">>>>,
       <<<<"U","n","i","t"," ","C","o","s","t">>, <<"2","5",".","0","0">>>>,
       <<<<"T","o","t","a","l"," ","Q","u","a","n","t","i","t","y">>, <<"1","0">>>>,
       <<<<"A","g","r","e","e","m","e","n","t"," ","N","a","m","e">>, <<"A","3">>>>>>,
     <<<<<<"D","e","s","c","r","i","p","t","i","o","n">>, <<"K","i","t">>>>,
       <<<<"U","n","i","t"," ","C","o","s","t">>, <<"2","5",".","0","0">>>>,
       <<<<"T","o","t","a","l"," ","Q","u","a","n","t","i","t","y">>, <<"1","1">>>>,
       <<<<"A","g","r","e","e","m","e","n","t"," ","N","a","m","e">>, <<"A","4">>>>>>,
     <<<<<<"D","e","s","c","r","i","p","t","i","o","n">>, <<"K","i","t">>>>,
       <<<<"C","O","S","T">>, <<"1",",","0","2","5",".","0","0">>>>,
       <<<<"T","o","t","a","l"," ","Q","u","a","n","t","i","t","y">>, <<"1","0">>>>,
       <<<<"A","g","r","e","e","m","e","n","t"," ","N","a","m","e">>, <<"A","5">>>>>>,
     <<<<<<"D","e","s","c","r","i","p","t","i","o","n">>, <<"K","i","t">>>>,
       <<<<"P","r","i","c","e">>, <<"2","5",".","0","0">>>>,
       <<<<"Q","t","y">>, <<"1","0">>>>>>,
     <<<<<<"D","e","s","c","r","i","p","t","i","o","n">>, <<"K","i","t">>>>,
       <<<<"U","n","i","t"," ","C","o","s","t">>, <<"N","/","A">>>>,
       <<<<"T","o","t","a","l"," ","Q","u","a","n","t","i","t","y">>, <<"1","0">>>>,
       <<<<"A","g","r","e","e","m","e","n","t"," ","N","a","m","e">>, <<"A","7">>>>>>,
     <<<<<<"T","o","t","a","l"," ","Q","u","a","n","t","i","t","y">>, <<"0">>>>,
       <<<<"A","g","r","e","e","m","e","n","t"," ","N","a","m","e">>, <<"A","8">>>>>>,
     <<<<<<"D","e","s","c","r","i","p","t","i","o","n">>, <<"K","i","t","s">>>>,
       <<<<"U","n","i","t"," ","C","o","s","t">>, <<"0",".","0","0">>>>,
       <<<<"A","g","r","e","e","m","e","n","t"," ","N","a","m","e">>, <<"A","9">>>>>>,
     <<<<<<"D","e","s","c","r","i","p","t","i","o","n">>, <<"K","i","t">>>>,
       <<<<"U","n","i","t"," ","C","o","s","t">>, <<"n","a","n">>>>,
       <<<<"T","o","t","a","l"," ","Q","u","a","n","t","i","t","y">>, <<"1","0">>>>,
       <<<<"A","g","r","e","e","m","e","n","t"," ","N","a","m","e">>, <<"A","1","0">>>>>>,
     <<<<<<"D","e","s","c","r","i","p","t","i","o","n">>, <<"K","i","t">>>>,
       <<<<"U","n","i","t"," ","C","o","s","t">>, <<"2","5",".","0","0">>>>,
       <<<<"T","o","t","a","l"," ","Q","u","a","n","t","i","t","y">>, <<"1","0">>>>,
       <<None, <<<<"A","1","1">>, <<"E","X","T","R","A">>>>>>>>,
     <<<<<<"D","e","s","c","r","i","p","t","i","o","n">>, <<"K","i","t">>>>,
       <<<<"U","n","i","t"," ","C","o","s","t">>, <<"2","5",".","0","0">>>>,
       <<<<"T","o","t","a","l"," ","Q","u","a","n","t","i","t","y">>, <<"1","0",".","5">>>>,
       <<<<"A","g","r","e","e","m","e","n","t"," ","N","a","m","e">>, <<"A","1","2">>>>>>}

\* transaction records as extract_pdf returns them
MatchRecords ==
    {[Number |-> <<"1","0","0","1">>, EndCustomer |-> <<" ","A","c","m","e">>, Description |-> <<"K","i","t">>,
     NetUnitPrice |-> <<1, <<2,5>>, 0>>, Qty |-> <<1, <<1,0>>, 0>>, TotalAmount |-> Zero, SOPONumber |-> <<>>],
     [Number |-> <<"1","0","0","1">>, EndCustomer |-> <<" ","A","c","m","e">>, Description |-> <<"K","i","t","s">>,
     NetUnitPrice |-> Zero, Qty |-> Zero, TotalAmount |-> Zero, SOPONumber |-> <<>>],
     [Number |-> <<"1","0","0","1">>, EndCustomer |-> <<" ","A","c","m","e">>, Description |-> <<"K","i","t">>,
     NetUnitPrice |-> <<1, <<1,0,2,5>>, 0>>, Qty |-> <<1, <<1,0>>, 0>>, TotalAmount |-> Zero, SOPONumber |-> <<>>]}

InitMatch ==
    /\ pc = "start"
    /\ pdf_record \in MatchRecords
    /\ csv_data \in SeqsUpTo(RefRows, MaxRefRows)
    /\ pdf = Idle /\ csv_directory = Idle /\ company_name = Idle
    /\ matching_files = Idle /\ additions = Idle
    /\ pdf_data = Idle /\ matches = Idle /\ seen_numbers = {}
    /\ written = Idle /\ entry_idx = 0 /\ unmatched_records = Idle

\* additions = find_matching_additions(pdf_record, csv_data)
FindMatchingAdditions ==
    /\ pc = "start"
    /\ LET Return(r) == /\ additions' = r.matches
                         /\ pc' = IF r.raised THEN "raised" ELSE "matched"
       IN  Return(find_matching_additions(pdf_record, csv_data))
    /\ UNCHANGED <<pdf, csv_directory, company_name, matching_files, pdf_record,
                   csv_data, pdf_data, matches, seen_numbers, written,
                   entry_idx, unmatched_records>>

NextMatch == FindMatchingAdditions

SpecMatch == InitMatch /\ [][NextMatch]_vars

\* whether a row has a column whose label contains the word, case-insensitively;
\* the text of the first such column
HasColumn(row, word) == \E i \in 1..Len(row) : Contains(Lower(row[i][1]), word)
ColumnOf(row, word) ==
    row[First({i \in 1..Len(row) : Contains(Lower(row[i][1]), word)})][2]

\* the parsed cost and the parsed quantity of a row whose numbers parse (the
\* quantity truncated to an integer); 0 for a row without the column
ParsedCost(row) ==
    IF HasColumn(row, S_cost)
    THEN float(RemoveCommas(ColumnOf(row, S_cost))).value ELSE Zero
ParsedQuantity(row) ==
    IF HasColumn(row, S_quantity)
    THEN int(float(RemoveCommas(ColumnOf(row, S_quantity))).value) ELSE Zero

\* the rows of csv_data that pass the gate, by position
Qualifying ==
    {i \in 1..Len(csv_data) :
        /\ FloatEq(ParsedCost(csv_data[i]), pdf_record.NetUnitPrice)
        /\ ParsedQuantity(csv_data[i]) = pdf_record.Qty}

\* the candidate of a row: its projection and its description's similarity
Projection(row) == SelectSeq(row, LAMBDA kv : kv[1] \in selected_fields)
Similarity(row) ==
    fuzz_ratio(normalize_string(pdf_record.Description),
               normalize_string(IF DictHas(row, S_Description)
                                THEN DictGet(row, S_Description, <<>>)
                                ELSE S_NoDescriptionFound))
CandidateOf(row) == [data |-> Projection(row), relevance |-> Similarity(row)]

\* the quantity a row states: the number its quantity text parses to, before
\* any truncation; 0 for a row without the column
StatedQuantity(row) ==
    IF HasColumn(row, S_quantity)
    THEN float(RemoveCommas(ColumnOf(row, S_quantity))).value ELSE Zero

\* whether the number x equals the integer n: x has no fractional part and
\* its whole part is n
EqualsInt(x, n) == IsFinite(x) /\ x[3] = 0 /\ int(x) = n

\* the rows of csv_data whose parsed cost equals the record's unit price and
\* whose parsed quantity equals the record's quantity, by position
Equal ==
    {i \in 1..Len(csv_data) :
        /\ FloatEq(ParsedCost(csv_data[i]), pdf_record.NetUnitPrice)
        /\ EqualsInt(StatedQuantity(csv_data[i]), pdf_record.Qty)}

\* C2: every returned candidate comes from a reference row whose parsed cost
\* equals the record's unit price and whose parsed quantity equals the
\* record's quantity; a row differing in either by any nonzero amount adds no
\* candidate, whatever its description similarity.
C2_GateExactness ==
    pc = "matched" =>
        LET from == {CandidateOf(csv_data[i]) : i \in Equal}
        IN  /\ \A k \in 1..Len(additions) : additions[k] \in from
            /\ Len(additions) <= Cardinality(Equal)

\* what the gate of line 218 does guarantee: every returned candidate comes
\* from a row whose parsed cost equals the record's unit price and whose
\* parsed quantity, truncated to an integer by line 212, equals the record's
\* quantity
TruncatedGateExactness ==
    pc = "matched" =>
        LET from == {CandidateOf(csv_data[i]) : i \in Qualifying}
        IN  /\ \A k \in 1..Len(additions) : additions[k] \in from
            /\ Len(additions) <= Cardinality(Qualifying)

\* the candidates of the qualifying rows, in the order of the rows
QualifyingCandidates ==
    LET rows == SelectSeq(csv_data,
                    LAMBDA row : /\ FloatEq(ParsedCost(row), pdf_record.NetUnitPrice)
                                 /\ ParsedQuantity(row) = pdf_record.Qty)
    IN  [k \in 1..Len(rows) |-> CandidateOf(rows[k])]

\* C3: the result holds exactly one candidate per qualifying row, relevance is
\* non-increasing, and candidates of equal relevance keep the order of their
\* rows.
C3_RankingStableAndComplete ==
    pc = "matched" =>
        LET expected == QualifyingCandidates
        IN  /\ Len(additions) = Len(expected)
            /\ \A k \in 1..(Len(additions) - 1) :
                  ScoreGe(additions[k].relevance, additions[k + 1].relevance)
            /\ \A v \in {expected[k].relevance : k \in 1..Len(expected)} :
                  SelectSeq(additions, LAMBDA m : m.relevance = v)
                    = SelectSeq(expected, LAMBDA m : m.relevance = v)

\* three candidates: a less relevant row met first is returned last, and two
\* rows of equal relevance and different fields keep their order
C3_Witness ==
    /\ pc = "matched"
    /\ Len(additions) = 3
    /\ Len(csv_data) = 3
    /\ Qualifying = {1, 2, 3}
    /\ ScoreGt(Similarity(csv_data[2]), Similarity(csv_data[1]))
    /\ Similarity(csv_data[2]) = Similarity(csv_data[3])
    /\ Projection(csv_data[2]) # Projection(csv_data[3])
    /\ additions = <<CandidateOf(csv_data[2]), CandidateOf(csv_data[3]),
                     CandidateOf(csv_data[1])>>

\* whether the row comes from a line no longer than the header, every
\* located cell of it is a number (the quantity a finite one) and its
\* description is a str
RowParses(row) ==
    /\ \A i \in 1..Len(row) : row[i][1] # None
    /\ DictGet(row, S_Description, <<>>) # None
    /\ HasColumn(row, S_cost) =>
          /\ ColumnOf(row, S_cost) # None
          /\ ~float(RemoveCommas(ColumnOf(row, S_cost))).raised
    /\ HasColumn(row, S_quantity) =>
          /\ ColumnOf(row, S_quantity) # None
          /\ ~float(RemoveCommas(ColumnOf(row, S_quantity))).raised
          /\ IsFinite(float(RemoveCommas(ColumnOf(row, S_quantity))).value)

\* C10: a row without a cost (resp. quantity) column does not make the matcher
\* raise and is not skipped: it is a candidate exactly when the record's unit
\* price (resp. quantity) is 0 and the other gated field matches.
C10_MissingColumnIsZero ==
    /\ pc = "raised" => \E i \in 1..Len(csv_data) : ~RowParses(csv_data[i])
    /\ pc = "matched" =>
          \A i \in 1..Len(csv_data) :
              LET row == csv_data[i]
                  cost_ok == IF HasColumn(row, S_cost)
                             THEN FloatEq(ParsedCost(row), pdf_record.NetUnitPrice)
                             ELSE pdf_record.NetUnitPrice = Zero
                  qty_ok == IF HasColumn(row, S_quantity)
                            THEN ParsedQuantity(row) = pdf_record.Qty
                            ELSE pdf_record.Qty = Zero
                  same == {j \in 1..Len(csv_data) : csv_data[j] = row}
              IN  (~HasColumn(row, S_cost) \/ ~HasColumn(row, S_quantity)) =>
                      IF cost_ok /\ qty_ok
                      THEN Cardinality({k \in 1..Len(additions) :
                               additions[k] = CandidateOf(row)}) >= Cardinality(same)
                      ELSE \A k \in 1..Len(additions) : additions[k] # CandidateOf(row)

\* a record of quantity 0 and unit price 0 gets a row without either column
\* as its candidate
C10_Witness ==
    /\ pc = "matched"
    /\ pdf_record.Qty = Zero /\ pdf_record.NetUnitPrice = Zero
    /\ \E i \in 1..Len(csv_data) :
          /\ ~HasColumn(csv_data[i], S_cost)
          /\ ~HasColumn(csv_data[i], S_quantity)
          /\ \E k \in 1..Len(additions) : additions[k] = CandidateOf(csv_data[i])

(***************************************************************************)
(* The program: matches = get_pdf_matches(...), then the report writer.    *)
(***************************************************************************)
DriverRows ==
    {RawRow(<<"1","0","0","1">>, <<"9","8","7","6","5","4","3","2","1","0"," ","A","c","m","e">>, <<"K","i","t">>, <<"P","O","-","1">>, <<"1","0">>, <<"2","5",".","0","0">>, <<"2","5","0",".","0","0">>),
     RawRow(<<"1","0","0","1">>, <<"B","e","t","a">>, <<"K","i","t","s">>, <<"P","O","-","2">>, <<"1","0">>, <<"2","5",".","0","0">>, <<"2","5","0",".","0","0">>),
     RawRow(<<"1","0","0","2">>, <<"A","c","m","e">>, <<"K","i","t">>, <<"P","O","-","3">>, <<"3">>, <<"9",".","0","0">>, <<"2","7",".","0","0">>),
     RawRow(<<"1","0","0","2">>, <<"Z","e","d">>, <<"K","i","t">>, <<"P","O","-","4">>, <<"1","0">>, <<"2","5",".","0","0">>, <<"2","5","0",".","0","0">>),
     RawRow(<<"1","0","0","3">>, <<"A","c","m","e">>, <<"K","i","t","s">>, None, None, None, None)}

\* one-page documents of at most n rows
DriverDocuments(n) ==
    {<<>>} \cup {<<<<HeaderRow>> \o rows>> : rows \in SeqsUpTo(DriverRows, n)}

AcmeCsv ==
    CsvFile(<<"A","c","m","e",".","c","s","v">>, FourColumns,
            <<<<<<"K","i","t">>, <<"2","5",".","0","0">>, <<"1","0">>, <<"A","1">>>>,
              <<<<"K","i","t","s">>, <<"2","5",".","0","0">>, <<"1","0">>, <<"A","2">>>>,
              <<<<"K","i","t">>, <<"9",".","0","0">>, <<"4">>, <<"A","3">>>>>>)
\* a table without cost and quantity columns
Acme2Csv ==
    CsvFile(<<"A","c","m","e"," ","2",".","c","s","v">>, <<S_Description, <<" ","P","r","i","c","e">>, <<"Q","t","y">>>>,
            <<<<<<"K","i","t","s">>, <<"2","5",".","0","0">>, <<"1","0">>>>>>)
BetaCsv ==
    CsvFile(<<"B","e","t","a",".","c","s","v">>, FourColumns,
            <<<<<<"K","i","t">>, <<"2","5",".","0","0">>, <<"1","0">>, <<"B","1">>>>,
              <<>>,
              <<<<"K","i","t","s">>, <<"2","5",".","0","0">>, <<"1","0">>, <<"B","2">>>>>>)
\* a table with a cost that is no number
BetaCsvNoNumber ==
    CsvFile(<<"B","e","t","a",".","c","s","v">>, FourColumns,
            <<<<<<"K","i","t","s">>, <<"N","/","A">>, <<"1","0">>, <<"B","1">>>>>>)
\* a table without the Agreement Name column
BetaCsvNoAgreement ==
    CsvFile(<<"B","e","t","a",".","c","s","v">>, <<S_Description, S_UnitCost, S_TotalQuantity>>,
            <<<<<<"K","i","t","s">>, <<"2","5",".","0","0">>, <<"1","0">>>>>>)

\* the last table is a file without any line
DriverFiles ==
    {AcmeCsv, Acme2Csv, BetaCsv, BetaCsvNoNumber,
     CsvFile(<<"B","e","t","a",".","c","s","v">>, None, <<>>)}
ReportFiles == DriverFiles \cup {BetaCsvNoAgreement}

InitReport ==
    /\ pc = "start"
    /\ pdf \in DriverDocuments(MaxRecords)
    /\ csv_directory \in Directories(ReportFiles, MaxTables)
    /\ company_name = Idle /\ matching_files = Idle
    /\ pdf_record = Idle /\ csv_data = Idle /\ additions = Idle
    /\ pdf_data = Idle /\ matches = Idle /\ seen_numbers = {}
    /\ written = Idle /\ entry_idx = 0 /\ unmatched_records = Idle

\* line 272: matches = get_pdf_matches(pdf_path, csv_directory)
GetPdfMatches ==
    /\ pc = "start"
    /\ LET Return(r) == /\ matches' = r.matches
                         /\ pc' = IF r.raised THEN "raised" ELSE "matched"
       IN  Return(get_pdf_matches(pdf, csv_directory))
    /\ UNCHANGED <<pdf, csv_directory, company_name, matching_files, pdf_record,
                   csv_data, additions, pdf_data, seen_numbers, written,
                   entry_idx, unmatched_records>>

\* lines 282-287: the seen set, the output file and its header row
OpenOutput ==
    /\ pc = "matched"
    /\ seen_numbers' = {}
    /\ written' = <<headers>>
    /\ entry_idx' = 1
    /\ pc' = "writing"
    /\ UNCHANGED <<pdf, csv_directory, company_name, matching_files, pdf_record,
                   csv_data, additions, pdf_data, matches, unmatched_records>>

\* lines 290-329 for one entry
WriteEntry ==
    /\ pc = "writing"
    /\ entry_idx <= Len(matches)
    /\ LET entry == matches[entry_idx]
           number == entry.pdf.Number
       IN  IF number \in seen_numbers
           THEN /\ entry_idx' = entry_idx + 1
                /\ UNCHANGED <<pc, seen_numbers, written>>
           ELSE /\ seen_numbers' = seen_numbers \cup {number}
                /\ written' = written \o entry_rows(entry)
                /\ IF entry_raises(entry)
                   THEN pc' = "write_raised" /\ UNCHANGED entry_idx
                   ELSE entry_idx' = entry_idx + 1 /\ UNCHANGED pc
    /\ UNCHANGED <<pdf, csv_directory, company_name, matching_files, pdf_record,
                   csv_data, additions, pdf_data, matches, unmatched_records>>

\* the end of the loop of line 290 and of the with block
CloseOutput ==
    /\ pc = "writing"
    /\ entry_idx > Len(matches)
    /\ pc' = "done"
    /\ UNCHANGED <<pdf, csv_directory, company_name, matching_files, pdf_record,
                   csv_data, additions, pdf_data, matches, seen_numbers, written,
                   entry_idx, unmatched_records>>

NextReport == GetPdfMatches \/ OpenOutput \/ WriteEntry \/ CloseOutput

SpecReport == InitReport /\ [][NextReport]_vars

\* the entries that are the first of their transaction id, by position
FirstOfId ==
    {i \in 1..Len(matches) :
        \A j \in 1..(i - 1) : matches[j].pdf.Number # matches[i].pdf.Number}

\* the rows of the report after the header, and those that carry the cells
\* of entry i's record
ReportRows == Tail(written)
RowsOf(i) ==
    {k \in 1..Len(ReportRows) :
        SubSeq(ReportRows[k], 1, 7) = pdf_cells(matches[i].pdf)}

\* C4: once the writer has ended, the report holds one result per distinct
\* transaction id, that of the first record carrying the id, the results are
\* in the order of those first records, and no later record with a seen id
\* has a row.
C4_DedupById ==
    pc \in {"done", "write_raised"} =>
        /\ \A i \in FirstOfId : RowsOf(i) # {}
        /\ \A i \in (1..Len(matches)) \ FirstOfId :
              (\A j \in FirstOfId : matches[j].pdf # matches[i].pdf) => RowsOf(i) = {}
        /\ \A i \in FirstOfId : \A j \in FirstOfId :
              i < j => \A k \in RowsOf(i) : \A l \in RowsOf(j) : k < l

\* C6: the writer ends without failing, and every emitted record with n
\* candidates has n rows in the report when n > 0 and one row with blank
\* match columns when n = 0.
C6_ReportShape ==
    pc \in {"done", "write_raised"} =>
        /\ pc = "done"
        /\ \A i \in FirstOfId :
              IF matches[i].matches = <<>>
              THEN /\ Cardinality(RowsOf(i)) = 1
                   /\ \A k \in RowsOf(i) :
                         SubSeq(ReportRows[k], 8, 11) = <<<<>>, <<>>, <<>>, <<>>>>
              ELSE Cardinality(RowsOf(i)) = Len(matches[i].matches)

(***************************************************************************)
(* find_unmatched_pdf_records(pdf_path, csv_directory).                    *)
(***************************************************************************)
InitUnmatched ==
    /\ pc = "start"
    /\ pdf \in DriverDocuments(MaxBatch)
    /\ csv_directory \in Directories(DriverFiles, MaxTables)
    /\ company_name = Idle /\ matching_files = Idle
    /\ pdf_record = Idle /\ csv_data = Idle /\ additions = Idle
    /\ pdf_data = Idle /\ matches = Idle /\ seen_numbers = {}
    /\ written = Idle /\ entry_idx = 0 /\ unmatched_records = Idle

\* lines 257-258
UnmatchedExtract ==
    /\ pc = "start"
    /\ LET Return(r) == /\ pdf_data' = r.data
                         /\ pc' = IF r.raised THEN "raised" ELSE "checking"
       IN  Return(extract_pdf(pdf))
    /\ unmatched_records' = <<>>
    /\ entry_idx' = 1
    /\ UNCHANGED <<pdf, csv_directory, company_name, matching_files, pdf_record,
                   csv_data, additions, matches, seen_numbers, written>>

\* lines 260-266 for one record
UnmatchedCheck ==
    /\ pc = "checking"
    /\ entry_idx <= Len(pdf_data)
    /\ LET Check(record, r) ==
               IF r.raised
               THEN pc' = "raised" /\ UNCHANGED <<entry_idx, unmatched_records>>
               ELSE /\ unmatched_records' = IF no_matches(r.matches)
                                            THEN Append(unmatched_records, record)
                                            ELSE unmatched_records
                    /\ entry_idx' = entry_idx + 1
                    /\ UNCHANGED pc
           Found(record, csv) ==
               Check(record,
                     IF csv.raised THEN [raised |-> TRUE, matches |-> <<>>]
                     ELSE find_matching_additions(record, csv.data))
           Matches(record) ==
               Found(record,
                     extract_matching_csv_data(record.EndCustomer, csv_directory))
       IN  Matches(pdf_data[entry_idx])
    /\ UNCHANGED <<pdf, csv_directory, company_name, matching_files, pdf_record,
                   csv_data, additions, pdf_data, matches, seen_numbers, written>>

\* line 267
UnmatchedReturn ==
    /\ pc = "checking"
    /\ entry_idx > Len(pdf_data)
    /\ pc' = "returned"
    /\ UNCHANGED <<pdf, csv_directory, company_name, matching_files, pdf_record,
                   csv_data, additions, pdf_data, matches, seen_numbers, written,
                   entry_idx, unmatched_records>>

NextUnmatched == UnmatchedExtract \/ UnmatchedCheck \/ UnmatchedReturn

SpecUnmatched == InitUnmatched /\ [][NextUnmatched]_vars

\* the candidates the matcher returns for a record on the rows of its resolved
\* table, or on no rows when no table resolves
CandidatesFor(record) ==
    find_matching_additions(
        record,
        extract_matching_csv_data(record.EndCustomer, csv_directory).data).matches

\* C8: the returned list holds, in input order, exactly the cleaned records
\* for which the matcher returns no candidate.
C8_UnmatchedAreThoseWithoutCandidates ==
    pc = "returned" =>
        unmatched_records
            = SelectSeq(pdf_data, LAMBDA record : CandidatesFor(record) = <<>>)

\* three records: one without a table, one with candidates, one with a table
\* and no candidate; the first and the last are returned, in that order
C8_Witness ==
    /\ pc = "returned"
    /\ Len(pdf_data) = 3
    /\ find_matching_csv_files(pdf_data[1].EndCustomer, csv_directory) = <<>>
    /\ CandidatesFor(pdf_data[2]) # <<>>
    /\ find_matching_csv_files(pdf_data[3].EndCustomer, csv_directory) # <<>>
    /\ CandidatesFor(pdf_data[3]) = <<>>
    /\ unmatched_records = <<pdf_data[1], pdf_data[3]>>

====
